---- MODULE Spec2Model ----
(***************************************************************************)
(* Model of the content-policy decision service of server.js (v4.1):       *)
(* POST /check-url, POST /heartbeat, and the helpers getDomainFromUrl,     *)
(* logBlockingEvent, getUserRuleData and getAIDecision.                    *)
(*                                                                         *)
(* JavaScript strings are TLA+ strings; the string primitives of the       *)
(* source (trim, startsWith, endsWith, includes, split, join, toLowerCase, *)
(* toUpperCase) are computed character by character.                       *)
(***************************************************************************)
EXTENDS Integers, Sequences, FiniteSets, TLC

\* JavaScript null / undefined
NULL == "<null>"

\* ------------------------------------------------------------------------
\* String primitives
\* ------------------------------------------------------------------------
CharAt(s, i) == SubSeq(s, i, i)

StartsWith(s, p) == Len(p) <= Len(s) /\ SubSeq(s, 1, Len(p)) = p

EndsWith(s, p) == Len(p) <= Len(s) /\ SubSeq(s, Len(s) - Len(p) + 1, Len(s)) = p

Includes(s, p) == \E i \in 1..(Len(s) - Len(p) + 1) : SubSeq(s, i, i + Len(p) - 1) = p

UpperChars == "ABCDEFGHIJKLMNOPQRSTUVWXYZ"

LowerChars == "abcdefghijklmnopqrstuvwxyz"

\* the letters of each case, and the letter of the other case for each
UpperSet == { CharAt(UpperChars, i) : i \in 1..Len(UpperChars) }

LowerSet == { CharAt(LowerChars, i) : i \in 1..Len(LowerChars) }

LowerOf ==
    [c \in UpperSet |-> CharAt(LowerChars, CHOOSE i \in 1..Len(UpperChars) : CharAt(UpperChars, i) = c)]

UpperOf ==
    [c \in LowerSet |-> CharAt(UpperChars, CHOOSE i \in 1..Len(LowerChars) : CharAt(LowerChars, i) = c)]

LowerChar(c) == IF c \in UpperSet THEN LowerOf[c] ELSE c

UpperChar(c) == IF c \in LowerSet THEN UpperOf[c] ELSE c

RECURSIVE ToLowerCase(_)
ToLowerCase(s) == IF s = "" THEN "" ELSE LowerChar(CharAt(s, 1)) \o ToLowerCase(Tail(s))

RECURSIVE ToUpperCase(_)
ToUpperCase(s) == IF s = "" THEN "" ELSE UpperChar(CharAt(s, 1)) \o ToUpperCase(Tail(s))

WhiteSpace == {" ", "\n", "\t"}

RECURSIVE TrimStart(_)
TrimStart(s) == IF s # "" /\ CharAt(s, 1) \in WhiteSpace THEN TrimStart(Tail(s)) ELSE s

RECURSIVE TrimEnd(_)
TrimEnd(s) ==
    IF s # "" /\ CharAt(s, Len(s)) \in WhiteSpace THEN TrimEnd(SubSeq(s, 1, Len(s) - 1)) ELSE s

Trim(s) == TrimEnd(TrimStart(s))

\* index of the first character of s that is in cs, Len(s) + 1 when there is none
RECURSIVE FirstFrom(_, _, _)
FirstFrom(s, cs, i) ==
    IF i > Len(s) \/ CharAt(s, i) \in cs THEN i ELSE FirstFrom(s, cs, i + 1)

FirstOf(s, cs) == FirstFrom(s, cs, 1)

\* String.prototype.split(c) for a one-character separator
RECURSIVE Split(_, _)
Split(s, c) ==
    LET i == FirstOf(s, {c})
    IN  IF i > Len(s) THEN <<s>>
        ELSE <<SubSeq(s, 1, i - 1)>> \o Split(SubSeq(s, i + 1, Len(s)), c)

\* Array.prototype.join(c)
RECURSIVE Join(_, _)
Join(parts, c) ==
    IF Len(parts) = 0 THEN ""
    ELSE IF Len(parts) = 1 THEN parts[1]
    ELSE parts[1] \o c \o Join(Tail(parts), c)

\* Array.prototype.slice(-n)
SliceLast(parts, n) ==
    IF Len(parts) <= n THEN parts ELSE SubSeq(parts, Len(parts) - n + 1, Len(parts))

\* ------------------------------------------------------------------------
\* new URL(s): the WHATWG parser on the http/https inputs of the model.
\* A string without a scheme, with an empty host or with a forbidden host
\* code point makes the constructor throw (ok = FALSE).  The host is
\* lowercased by the parser; the pathname is "/" when the input has none.
\* ------------------------------------------------------------------------
ForbiddenHostChars == {" ", "\n", "\t", "<", ">", "^", "|", "%", "[", "]", "\\", "@", ":"}

URLFail == [ok |-> FALSE, hostname |-> "", pathname |-> ""]

\* the pathname of tl, what follows the host; pEnd: where its query or
\* fragment starts
PathOf(tl, pEnd) == IF pEnd = 1 THEN "/" ELSE SubSeq(tl, 1, pEnd - 1)

ParseHost(host, tl) ==
    IF host = "" \/ \E i \in 1..Len(host) : CharAt(host, i) \in ForbiddenHostChars
    THEN URLFail
    ELSE [ok |-> TRUE,
          hostname |-> ToLowerCase(host),
          pathname |-> PathOf(tl, FirstOf(tl, {"?", "#"}))]

\* rest: what follows "scheme://"; hEnd: where its host ends
ParseAuthority(rest, hEnd) ==
    ParseHost(SubSeq(rest, 1, hEnd - 1), SubSeq(rest, hEnd, Len(rest)))

ParseAfterScheme(rest) == ParseAuthority(rest, FirstOf(rest, {"/", "?", "#"}))

ParseTrimmed(s) ==
    IF StartsWith(s, "http://") THEN ParseAfterScheme(SubSeq(s, 8, Len(s)))
    ELSE IF StartsWith(s, "https://") THEN ParseAfterScheme(SubSeq(s, 9, Len(s)))
    ELSE URLFail

ParseURL(str) == ParseTrimmed(Trim(str))

\* ------------------------------------------------------------------------
\* getDomainFromUrl
\* ------------------------------------------------------------------------
\* getDomainFromUrl without the three-label case
DomainOfPartsTwoLabels(hostname, parts, n) ==
    IF n >= 2 THEN ToLowerCase(Join(SliceLast(parts, 2), ".")) ELSE ToLowerCase(hostname)

\* the body of getDomainFromUrl after `parts = url.hostname.split('.')`
DomainOfParts(hostname, parts, n) ==
    IF n >= 2
    THEN IF n > 2 /\ Len(parts[n - 1]) <= 3 /\ Len(parts[n]) <= 3
         THEN ToLowerCase(Join(SliceLast(parts, 3), "."))
         ELSE ToLowerCase(Join(SliceLast(parts, 2), "."))
    ELSE ToLowerCase(hostname)

DomainOfHost(hostname, parts) == DomainOfParts(hostname, parts, Len(parts))

\* url: the outcome of `new URL(fullUrl)`; a throw is caught and gives null
DomainOfURL(url) ==
    IF ~url.ok THEN NULL ELSE DomainOfHost(url.hostname, Split(url.hostname, "."))

\* fullUrl: the trimmed string, with 'http://' in front when it has no scheme
FullUrl(trimmed) ==
    IF ~StartsWith(trimmed, "http://") /\ ~StartsWith(trimmed, "https://")
    THEN "http://" \o trimmed ELSE trimmed

getDomainFromUrl(urlString) ==
    IF urlString = NULL \/ urlString = "" THEN NULL
    ELSE DomainOfURL(ParseURL(FullUrl(Trim(urlString))))

\* ------------------------------------------------------------------------
\* Program constants
\* ------------------------------------------------------------------------
SYSTEM_ALLOWED_DOMAINS ==
    {"onrender.com", "supabase.co", "accounts.google.com", "beaconblocker.com", "vercel.app"}

\* reasons that logBlockingEvent drops without an insert
SuppressedReasons == {"System Rule (Infra)", "Search Allowed", "YouTube Navigation"}

\* a JavaScript value used as a condition
Truthy(v) == v # NULL /\ v # ""

\* a || b on strings
OrElse(a, b) == IF Truthy(a) THEN a ELSE b

\* ------------------------------------------------------------------------
\* Bounds and input sets
\* ------------------------------------------------------------------------
MaxReqs == 2

MaxBeats == 1

Reqs == 1..MaxReqs

Urls ==
    { NULL, "",
      "https://accounts.google.com/signin",
      "https://app.supabase.co/rest",
      "https://notsupabase.co/",
      "https://www.google.com/search?q=cats",
      "https://duckduckgo.com/",
      "https://www.bing.com/",
      "https://www.youtube.com/feed",
      "https://youtube.com/watch?v=1",
      "https://www.bbc.co.uk/news",
      "https://Sub.Example.com/a",
      "https://notexample.com/",
      "example.com/x",
      "not a url" }

AuthHeaders == { NULL, "Bearer", "Bearer ", "Bearer k1", "Bearer k2" }

PageTitle == "UK News"

\* the urls that are sent with and without a searchQuery
QueryUrls ==
    { "https://www.google.com/search?q=cats", "https://duckduckgo.com/",
      "https://www.youtube.com/feed", "https://youtube.com/watch?v=1",
      "https://notexample.com/" }

\* the request bodies (PageDescriptor)
Pages ==
    { [url |-> u, title |-> PageTitle, searchQuery |-> NULL] : u \in Urls }
        \cup { [url |-> u, title |-> PageTitle, searchQuery |-> "cats"] : u \in QueryUrls }

\* a list column and a map column that hold null
NullList == <<NULL>>

NullMap == {NULL}

AllowLists == { NullList, <<"example.com">>, <<"google.com", "bbc.co.uk">> }

BlockLists == { NullList, <<"example.com", "bbc.co.uk">>, <<"youtube.com", "supabase.co", "google.com">> }

\* what a call of the completion backend can produce: a text, or a rejected
\* call (backend error or client-side timeout); a call may also never answer
AI_ERROR == "<ai-error>"

AITexts == { " allow\n", "BLOCK", "ALLOW, do not block", "maybe", "" }

RegisteredKey == "k1"

UserId == "u1"

Rule(al, bl, prompt, cats) ==
    [ user_id |-> UserId, api_key |-> RegisteredKey, prompt |-> prompt,
      blocked_categories |-> cats, allow_list |-> al, block_list |-> bl, last_seen |-> 0 ]

\* the rows the 'rules' table can hold for RegisteredKey
RuleRecords ==
    { Rule(al, bl, NULL, NullMap) : al \in AllowLists, bl \in BlockLists }
        \cup { Rule(NullList, bl, "Block news", {"news"}) : bl \in BlockLists }

\* the inputs of the runs with more than one request
ConcPages ==
    { [url |-> u, title |-> PageTitle, searchQuery |-> "cats"] :
        u \in {"https://www.google.com/search?q=cats", "https://notexample.com/"} }
        \cup { [url |-> u, title |-> PageTitle, searchQuery |-> NULL] :
                 u \in {"https://Sub.Example.com/a", "not a url"} }

ConcRuleRecords ==
    { Rule(<<"example.com">>, NullList, NULL, NullMap),
      Rule(NullList, <<"example.com", "bbc.co.uk">>, "Block news", {"news"}) }

VARIABLES
    clients,        \* number of /check-url requests sent in this run
    rules,          \* the row of table 'rules' with api_key = RegisteredKey
    blocking_log,   \* table 'blocking_log': the rows inserted so far
    page,           \* the request body (PageDescriptor) the client sends
    authHeader,     \* the Authorization header the client sends
    req,            \* per request: position in the handler and its locals
    arg,            \* a helper called on its own: its argument
    ret             \* and what it returned, NotCalled before the call

vars == <<clients, rules, blocking_log, page, authHeader, req, arg, ret>>

NotCalled == "<not called>"

NoLog == [userId |-> NULL, url |-> NULL, decision |-> NULL, reason |-> NULL, pageTitle |-> NULL]

IdleReq ==
    [ pc         |-> "idle",   \* idle, rules, ai, log, done
      userId     |-> NULL,
      allow_list |-> <<>>,
      block_list |-> <<>>,
      found      |-> FALSE,    \* getUserRuleData returned a record
      hostname   |-> NULL,     \* urlObj.hostname.toLowerCase(), once computed
      pathname   |-> NULL,     \* urlObj.pathname, once computed
      baseDomain |-> NULL,     \* getDomainFromUrl(url), once computed
      evaluated  |-> <<>>,     \* the checks evaluated, in order
      log        |-> NoLog,    \* argument of the last logBlockingEvent call
      logCalls   |-> 0,        \* calls of logBlockingEvent
      inserts    |-> <<>>,     \* rows handed to blocking_log.insert, and when
      storeReads |-> 0,        \* selects on table 'rules'
      aiCalls    |-> 0,        \* calls of model.generateContent
      aiResult   |-> NULL,     \* what the completion call produced
      next       |-> [status |-> 0, decision |-> NULL],  \* response after the await
      status     |-> 0,        \* HTTP status of the response, 0 = none yet
      decision   |-> NULL,     \* 'decision' field of the response body
      responses  |-> 0 ]

\* one request on every input, or several requests of one client (same
\* body, same header) on ConcPages and ConcRuleRecords
Init ==
    /\ \/ /\ clients = 1
          /\ rules \in RuleRecords
          /\ page \in Pages
          /\ authHeader \in AuthHeaders
       \/ /\ clients \in 2..MaxReqs
          /\ rules \in ConcRuleRecords
          /\ page \in ConcPages
          /\ authHeader = "Bearer k1"
    /\ blocking_log = <<>>
    /\ req = [r \in Reqs |-> IdleReq]
    /\ arg = NULL /\ ret = NotCalled

\* ------------------------------------------------------------------------
\* The synchronous part of the /check-url handler between the rule lookup
\* and the next await
\* ------------------------------------------------------------------------
InfraMatch(baseDomain) ==
    baseDomain # NULL /\ \E d \in SYSTEM_ALLOWED_DOMAINS : EndsWith(baseDomain, d)

SearchMatch(hostname, pathname) ==
    /\ Includes(hostname, "google.") \/ Includes(hostname, "bing.") \/ Includes(hostname, "duckduckgo.")
    /\ pathname = "/" \/ StartsWith(pathname, "/search")

\* the title of the earlier revision
SearchTitleEarlier(hostname, searchQuery) ==
    IF Truthy(searchQuery) THEN "Search: \"" \o searchQuery \o "\"" ELSE "Search Engine Home"

SearchTitle(hostname, searchQuery) ==
    LET engine == IF Includes(hostname, "google") THEN "Google"
                  ELSE IF Includes(hostname, "bing") THEN "Bing"
                  ELSE "Search Engine"
    IN  IF Truthy(searchQuery) THEN engine \o " Search: \"" \o searchQuery \o "\""
        ELSE engine \o " Home"

YouTubeMatch(hostname, pathname) ==
    /\ EndsWith(hostname, "youtube.com")
    /\ ~StartsWith(pathname, "/watch") /\ ~StartsWith(pathname, "/shorts")

YouTubeTitle(searchQuery) ==
    IF Truthy(searchQuery) THEN "Youtube: \"" \o searchQuery \o "\"" ELSE "YouTube Browsing"

\* the list test without its equality case
ListMatchSuffixOnly(baseDomain, list) ==
    baseDomain # NULL /\ \E i \in 1..Len(list) : EndsWith(baseDomain, "." \o list[i])

ListMatch(baseDomain, list) ==
    /\ baseDomain # NULL
    /\ \E i \in 1..Len(list) : baseDomain = list[i] \/ EndsWith(baseDomain, "." \o list[i])

LogArg(userId, url, decision, reason, pageTitle) ==
    [userId |-> userId, url |-> url, decision |-> decision, reason |-> reason,
     pageTitle |-> pageTitle]

\* the checks with the user lists consulted before the system rules
ChecksOnListsFirst(pageData, userId, allow_list, block_list, urlObj, baseDomain) ==
    LET url        == pageData.url
        hostname   == urlObj.hostname
        pathname   == urlObj.pathname
    IN  IF ~urlObj.ok
        THEN [kind |-> "throw", evaluated |-> <<>>, decision |-> NULL, log |-> NoLog]
        ELSE IF ListMatch(baseDomain, block_list)
        THEN [kind |-> "verdict", evaluated |-> <<"block">>, decision |-> "BLOCK",
              log |-> LogArg(userId, url, "BLOCK", "Matched Block List", pageData.title)]
        ELSE IF ListMatch(baseDomain, allow_list)
        THEN [kind |-> "verdict", evaluated |-> <<"block", "allow">>, decision |-> "ALLOW",
              log |-> LogArg(userId, url, "ALLOW", "Matched Allow List", pageData.title)]
        ELSE IF InfraMatch(baseDomain)
        THEN [kind |-> "verdict", evaluated |-> <<"block", "allow", "infra">>,
              decision |-> "ALLOW",
              log |-> LogArg(userId, url, "ALLOW", "System Rule (Infra)", pageData.title)]
        ELSE IF SearchMatch(hostname, pathname)
        THEN [kind |-> "verdict", evaluated |-> <<"block", "allow", "infra", "search">>,
              decision |-> "ALLOW",
              log |-> LogArg(userId, url, "ALLOW", "Search Allowed",
                             SearchTitle(hostname, pageData.searchQuery))]
        ELSE IF YouTubeMatch(hostname, pathname)
        THEN [kind |-> "verdict",
              evaluated |-> <<"block", "allow", "infra", "search", "youtube">>,
              decision |-> "ALLOW",
              log |-> LogArg(userId, url, "ALLOW", "YouTube Navigation",
                             YouTubeTitle(pageData.searchQuery))]
        ELSE [kind |-> "ai",
              evaluated |-> <<"block", "allow", "infra", "search", "youtube", "ai">>,
              decision |-> NULL, log |-> NoLog]

\* the checks of the handler on its locals urlObj (the outcome of new URL(url))
\* and baseDomain
\* kind: "throw" (new URL threw), "verdict" (a check matched), "ai" (getAIDecision is called)
ChecksOn(pageData, userId, allow_list, block_list, urlObj, baseDomain) ==
    LET url        == pageData.url
        hostname   == urlObj.hostname
        pathname   == urlObj.pathname
    IN  IF ~urlObj.ok
        THEN [kind |-> "throw", evaluated |-> <<>>, decision |-> NULL, log |-> NoLog]
        ELSE IF InfraMatch(baseDomain)
        THEN [kind |-> "verdict", evaluated |-> <<"infra">>, decision |-> "ALLOW",
              log |-> LogArg(userId, url, "ALLOW", "System Rule (Infra)", pageData.title)]
        ELSE IF SearchMatch(hostname, pathname)
        THEN [kind |-> "verdict", evaluated |-> <<"infra", "search">>, decision |-> "ALLOW",
              log |-> LogArg(userId, url, "ALLOW", "Search Allowed",
                             SearchTitle(hostname, pageData.searchQuery))]
        ELSE IF YouTubeMatch(hostname, pathname)
        THEN [kind |-> "verdict", evaluated |-> <<"infra", "search", "youtube">>,
              decision |-> "ALLOW",
              log |-> LogArg(userId, url, "ALLOW", "YouTube Navigation",
                             YouTubeTitle(pageData.searchQuery))]
        ELSE IF ListMatch(baseDomain, allow_list)
        THEN [kind |-> "verdict", evaluated |-> <<"infra", "search", "youtube", "allow">>,
              decision |-> "ALLOW",
              log |-> LogArg(userId, url, "ALLOW", "Matched Allow List", pageData.title)]
        ELSE IF ListMatch(baseDomain, block_list)
        THEN [kind |-> "verdict",
              evaluated |-> <<"infra", "search", "youtube", "allow", "block">>,
              decision |-> "BLOCK",
              log |-> LogArg(userId, url, "BLOCK", "Matched Block List", pageData.title)]
        ELSE [kind |-> "ai",
              evaluated |-> <<"infra", "search", "youtube", "allow", "block", "ai">>,
              decision |-> NULL, log |-> NoLog]

\* the checks with the user lists consulted before the system rules
ChecksListsFirst(pageData, userId, allow_list, block_list) ==
    ChecksOnListsFirst(pageData, userId, allow_list, block_list,
                       ParseURL(pageData.url), getDomainFromUrl(pageData.url))

Checks(pageData, userId, allow_list, block_list) ==
    ChecksOn(pageData, userId, allow_list, block_list,
             ParseURL(pageData.url), getDomainFromUrl(pageData.url))

\* ------------------------------------------------------------------------
\* logBlockingEvent up to its await: TRUE when it returns without an insert
\* ------------------------------------------------------------------------
\* the suppression of the earlier revision: infra only
LogSkippedInfraOnly(logData) ==
    ~Truthy(logData.userId) \/ StartsWith(OrElse(logData.reason, ""), "System Rule (Infra)")

\* logBlockingEvent without its test of userId
LogSkippedReasonOnly(logData) == logData.reason \in SuppressedReasons

LogSkipped(logData) == ~Truthy(logData.userId) \/ logData.reason \in SuppressedReasons

\* the row logBlockingEvent hands to supabase.from('blocking_log').insert
LogRow(logData) ==
    [ user_id    |-> logData.userId,
      url        |-> OrElse(logData.url, "Unknown URL"),
      domain     |-> OrElse(getDomainFromUrl(logData.url), "Unknown Domain"),
      decision   |-> logData.decision,
      reason     |-> logData.reason,
      page_title |-> OrElse(logData.pageTitle, "") ]

\* `await logBlockingEvent(logData)` followed by the response (status, decision):
\* the response is sent at once when the call returns early, otherwise after
\* the insert has been answered
LogThenRespond(q, logData, status, decision) ==
    IF LogSkipped(logData)
    THEN [q EXCEPT !.pc = "done", !.log = logData, !.logCalls = @ + 1,
                   !.status = status, !.decision = decision, !.responses = @ + 1]
    ELSE [q EXCEPT !.pc = "log", !.log = logData, !.logCalls = @ + 1,
                   !.inserts = Append(@, LogRow(logData)),
                   !.next = [status |-> status, decision |-> decision]]

\* ------------------------------------------------------------------------
\* getAIDecision: the verdict parsed from the backend's text, and the verdict
\* of its catch block
\* ------------------------------------------------------------------------
AIErrorVerdictAllow == "ALLOW"

AIErrorVerdict == "BLOCK"

\* the backend's text handed on as the decision
ParseVerdictRaw(text) == ToUpperCase(Trim(text))

\* the two tests in the other order
ParseVerdictAllowFirst(text) ==
    LET decision == ToUpperCase(Trim(text))
    IN  IF Includes(decision, "ALLOW") THEN "ALLOW"
        ELSE IF Includes(decision, "BLOCK") THEN "BLOCK"
        ELSE "BLOCK"

ParseVerdict(text) ==
    LET decision == ToUpperCase(Trim(text))
    IN  IF Includes(decision, "BLOCK") THEN "BLOCK"
        ELSE IF Includes(decision, "ALLOW") THEN "ALLOW"
        ELSE "BLOCK"

\* getAIDecision on what the completion call produced: a text, or AI_ERROR
\* when generateContent, result.response or response.text() throws
getAIDecision(outcome) ==
    IF outcome = AI_ERROR THEN AIErrorVerdict ELSE ParseVerdict(outcome)

\* ------------------------------------------------------------------------
\* POST /check-url
\* ------------------------------------------------------------------------
\* the first token of the header taken as the key
ApiKeyOfFirstToken(header) ==
    IF ~Truthy(header) THEN NULL ELSE Split(header, " ")[1]

\* const apiKey = authHeader ? authHeader.split(' ')[1] : null
ApiKeyOf(header) ==
    IF ~Truthy(header) THEN NULL
    ELSE LET parts == Split(header, " ") IN IF Len(parts) >= 2 THEN parts[2] ELSE NULL

Respond(q, status, decision) ==
    [q EXCEPT !.pc = "done", !.status = status, !.decision = decision, !.responses = @ + 1]

\* the handler up to `await getUserRuleData(apiKey)`
\* (the requests are numbered in the order of their arrival)
Receive(r) ==
    /\ req[r].pc = "idle"
    /\ r <= clients
    /\ \A p \in Reqs : p < r => req[p].pc # "idle"
    /\ LET url == page.url
           apiKey == ApiKeyOf(authHeader)
       IN  req' = [req EXCEPT ![r] =
                IF ~Truthy(url) \/ ~Truthy(apiKey)
                THEN Respond(@, 400, NULL)
                ELSE [@ EXCEPT !.pc = "rules", !.storeReads = @ + 1]]
    /\ UNCHANGED <<arg, ret, clients, rules, blocking_log, page, authHeader>>

\* a catch block that answers without an audit entry
CatchNoLog(q, userId) == Respond(q, 500, NULL)

\* a catch block that logs the error without a decision
CatchLogsNoDecision(q, userId) ==
    LogThenRespond(q, LogArg(userId, page.url, NULL, "Server Error", page.title), 500, NULL)

\* the catch block of the handler: the audit entry, then the 500 response
Catch(q, userId) ==
    LogThenRespond(q, LogArg(userId, page.url, "BLOCK", "Server Error", page.title), 500, NULL)

\* the handler with a rule record, up to the next await (the audit insert or
\* the completion call); c: the outcome of the checks
RunChecksOn(q, ruleData, c, urlObj, baseDomain) ==
    LET userId == ruleData.user_id
        q0     == [q EXCEPT !.found = TRUE, !.userId = userId,
                            !.allow_list = ruleData.allow_list,
                            !.block_list = ruleData.block_list,
                            !.evaluated = c.evaluated]
        q1     == IF c.kind = "throw" THEN q0
                  ELSE [q0 EXCEPT !.hostname = urlObj.hostname,
                                  !.pathname = urlObj.pathname,
                                  !.baseDomain = baseDomain]
    IN  CASE c.kind = "throw" -> Catch(q1, userId)
          [] c.kind = "verdict" -> LogThenRespond(q1, c.log, 200, c.decision)
          [] c.kind = "ai" -> [q1 EXCEPT !.pc = "ai", !.aiCalls = @ + 1]

RunChecks(q, ruleData) ==
    RunChecksOn(q, ruleData,
                Checks(page, ruleData.user_id, ruleData.allow_list, ruleData.block_list),
                ParseURL(page.url), getDomainFromUrl(page.url))

\* the row handed on as it is stored
getUserRuleDataRaw(data) == data

\* getUserRuleData on the row the select returned: null columns become
\* empty collections
getUserRuleData(data) ==
    [data EXCEPT !.allow_list = IF @ = NullList THEN <<>> ELSE @,
                 !.block_list = IF @ = NullList THEN <<>> ELSE @,
                 !.blocked_categories = IF @ = NullMap THEN {} ELSE @]

\* the order of the earlier revision: the infrastructure allow is answered
\* before the rule record is looked at
AfterRulesInfraFirst(q, found, data) ==
    IF ParseURL(page.url).ok /\ InfraMatch(getDomainFromUrl(page.url))
    THEN Respond(q, 200, "ALLOW")
    ELSE IF ~found THEN Respond(q, 401, NULL) ELSE RunChecks(q, getUserRuleData(data))

\* a handler that refuses a call once an earlier call has been answered
AfterRulesOncePerClient(q, found, data) ==
    IF \E p \in Reqs : req[p].pc = "done" THEN Respond(q, 429, NULL)
    ELSE IF ~found THEN Respond(q, 401, NULL) ELSE RunChecks(q, getUserRuleData(data))

\* after the select on 'rules' has answered (found: a row and no error):
\* getUserRuleData returns null and the handler answers 401, or it returns
\* the record and the handler runs the checks
AfterRules(q, found, data) ==
    IF ~found THEN Respond(q, 401, NULL) ELSE RunChecks(q, getUserRuleData(data))

\* the select on 'rules' answers: the row with that api_key, or none
RulesResult(r) ==
    /\ req[r].pc = "rules"
    /\ req' = [req EXCEPT ![r] = AfterRules(@, ApiKeyOf(authHeader) = rules.api_key, rules)]
    /\ UNCHANGED <<arg, ret, clients, rules, blocking_log, page, authHeader>>

\* the select on 'rules' answers with an error
RulesError(r) ==
    /\ req[r].pc = "rules"
    /\ req' = [req EXCEPT ![r] = AfterRules(@, FALSE, rules)]
    /\ UNCHANGED <<arg, ret, clients, rules, blocking_log, page, authHeader>>

AILogTitle ==
    OrElse(page.title, "Unknown Page")
        \o (IF Truthy(page.searchQuery) THEN " [Search: '" \o page.searchQuery \o "']" ELSE "")

\* a handler that reuses the verdict of the last audited call
AfterAIShared(q, decision) ==
    IF blocking_log = <<>>
    THEN LogThenRespond(q, LogArg(q.userId, page.url, decision, "AI Decision", AILogTitle),
                        200, decision)
    ELSE Respond(q, 200, blocking_log[Len(blocking_log)].decision)

AfterAI(q, decision) ==
    LogThenRespond(q, LogArg(q.userId, page.url, decision, "AI Decision", AILogTitle),
                   200, decision)

\* model.generateContent answers with a text
AIReturns(r) ==
    /\ req[r].pc = "ai"
    /\ \E text \in AITexts :
          req' = [req EXCEPT ![r] = AfterAI([@ EXCEPT !.aiResult = text], ParseVerdict(text))]
    /\ UNCHANGED <<arg, ret, clients, rules, blocking_log, page, authHeader>>

\* model.generateContent rejects (backend error, or the client's timeout)
AIThrows(r) ==
    /\ req[r].pc = "ai"
    /\ req' = [req EXCEPT ![r] = AfterAI([@ EXCEPT !.aiResult = AI_ERROR], AIErrorVerdict)]
    /\ UNCHANGED <<arg, ret, clients, rules, blocking_log, page, authHeader>>

\* the insert into 'blocking_log' succeeds; the handler then responds
InsertOk(r) ==
    /\ req[r].pc = "log"
    /\ blocking_log' = Append(blocking_log, req[r].inserts[Len(req[r].inserts)])
    /\ req' = [req EXCEPT ![r] = Respond(@, @.next.status, @.next.decision)]
    /\ UNCHANGED <<arg, ret, clients, rules, page, authHeader>>

\* the insert answers with an error, or throws: nothing is stored, the
\* failure is logged to the console and the handler responds
InsertFails(r) ==
    /\ req[r].pc = "log"
    /\ req' = [req EXCEPT ![r] = Respond(@, @.next.status, @.next.decision)]
    /\ UNCHANGED <<arg, ret, clients, rules, blocking_log, page, authHeader>>

\* ------------------------------------------------------------------------
\* POST /heartbeat?key=<apiKey>
\* ------------------------------------------------------------------------
\* a heartbeat that rewrites the row with an empty block list
HeartbeatClearsBlockList ==
    /\ rules.last_seen < MaxBeats
    /\ rules' = [rules EXCEPT !.last_seen = @ + 1, !.block_list = NullList]
    /\ UNCHANGED <<arg, ret, clients, blocking_log, page, authHeader, req>>

\* last_seen counts the updates; it stands for the time of the last one
Heartbeat ==
    /\ rules.last_seen < MaxBeats
    /\ \E key \in {NULL, "k1", "k2"} :
          rules' = IF Truthy(key) /\ key = rules.api_key
                   THEN [rules EXCEPT !.last_seen = @ + 1] ELSE rules
    /\ UNCHANGED <<arg, ret, clients, blocking_log, page, authHeader, req>>

Next ==
    \/ \E r \in Reqs : Receive(r)
    \/ \E r \in Reqs : RulesResult(r)
    \/ \E r \in Reqs : RulesError(r)
    \/ \E r \in Reqs : AIReturns(r)
    \/ \E r \in Reqs : AIThrows(r)
    \/ \E r \in Reqs : InsertOk(r)
    \/ \E r \in Reqs : InsertFails(r)
    \/ Heartbeat

Spec == Init /\ [][Next]_vars

\* The event loop runs the handler of every request that has arrived, and a
\* continuation runs as part of the step that answers its await.  The code
\* sets no timer on any await, so nothing obliges the rule store, the
\* completion backend or the audit store to answer.
FairSpec == Spec /\ WF_vars(\E r \in Reqs : Receive(r))

\* ------------------------------------------------------------------------
\* getDomainFromUrl called on its own
\* ------------------------------------------------------------------------
\* hostnames as written in a url, with their labels in lower case
HostCases ==
    { [text |-> "localhost",       labels |-> <<"localhost">>],
      [text |-> "example.com",     labels |-> <<"example", "com">>],
      [text |-> "Example.COM",     labels |-> <<"example", "com">>],
      [text |-> "t.co",            labels |-> <<"t", "co">>],
      [text |-> "www.google.com",  labels |-> <<"www", "google", "com">>],
      [text |-> "a.x.io",          labels |-> <<"a", "x", "io">>],
      [text |-> "www.bbc.co.uk",   labels |-> <<"www", "bbc", "co", "uk">>],
      [text |-> "foo.bar.co.uk",   labels |-> <<"foo", "bar", "co", "uk">>],
      [text |-> "Sub.Abc.De",      labels |-> <<"sub", "abc", "de">>],
      [text |-> "a.b.example.org", labels |-> <<"a", "b", "example", "org">>],
      [text |-> "shop.example.museum", labels |-> <<"shop", "example", "museum">>],
      [text |-> "192.168.1.1",     labels |-> <<"192", "168", "1", "1">>] }

Pads == {"", " "}

Schemes == {"", "http://", "https://"}

PathTails == {"", "/x", "/a.b/c?q=1.2#f.g"}

\* strings for which new URL fails, also with 'http://' in front
BadUrls == { NULL, "", "   ", "not a url", "http://", "https://exa mple.com/", "a<b.com" }

DomainCases ==
    { [url |-> pad \o scheme \o h.text \o tl, labels |-> h.labels] :
        pad \in Pads, scheme \in Schemes, h \in HostCases, tl \in PathTails }
        \cup { [url |-> u, labels |-> <<>>] : u \in BadUrls }

DomainInit ==
    /\ arg \in DomainCases /\ ret = NotCalled
    /\ clients = 0
    /\ rules = Rule(NullList, NullList, NULL, NullMap)
    /\ page = [url |-> NULL, title |-> NULL, searchQuery |-> NULL]
    /\ authHeader = NULL
    /\ blocking_log = <<>>
    /\ req = [r \in Reqs |-> IdleReq]

CallGetDomainFromUrl ==
    /\ ret = NotCalled
    /\ ret' = getDomainFromUrl(arg.url)
    /\ UNCHANGED <<arg, clients, rules, blocking_log, page, authHeader, req>>

DomainNext == CallGetDomainFromUrl

DomainSpec == DomainInit /\ [][DomainNext]_vars

\* ------------------------------------------------------------------------
\* getAIDecision called on its own
\* ------------------------------------------------------------------------
\* answers of the backend, with whether they hold the word BLOCK and the
\* word ALLOW in any case of letters
AnswerCases ==
    { [text |-> "ALLOW",               block |-> FALSE, allow |-> TRUE],
      [text |-> "allow",               block |-> FALSE, allow |-> TRUE],
      [text |-> "Allow",               block |-> FALSE, allow |-> TRUE],
      [text |-> "ALLOWED",             block |-> FALSE, allow |-> TRUE],
      [text |-> "Decision: aLLoW",     block |-> FALSE, allow |-> TRUE],
      [text |-> "BLOCK",               block |-> TRUE,  allow |-> FALSE],
      [text |-> "block",               block |-> TRUE,  allow |-> FALSE],
      [text |-> "**Block**",           block |-> TRUE,  allow |-> FALSE],
      [text |-> "unblocked",           block |-> TRUE,  allow |-> FALSE],
      [text |-> "ALLOW BLOCK",         block |-> TRUE,  allow |-> TRUE],
      [text |-> "allow, do not block", block |-> TRUE,  allow |-> TRUE],
      [text |-> "Block or Allow",      block |-> TRUE,  allow |-> TRUE],
      [text |-> "",                    block |-> FALSE, allow |-> FALSE],
      [text |-> "maybe",               block |-> FALSE, allow |-> FALSE],
      [text |-> "yes",                 block |-> FALSE, allow |-> FALSE],
      [text |-> "AL LOW",              block |-> FALSE, allow |-> FALSE],
      [text |-> "B-L-O-C-K",           block |-> FALSE, allow |-> FALSE],
      [text |-> "a\nllow",             block |-> FALSE, allow |-> FALSE] }

AnswerPads == {"", " ", "\n", "\t "}

AnswerEnds == {"", ".", " \n"}

\* what the completion call produces: a text, or an exception
VerdictCases ==
    { [outcome |-> pad \o a.text \o e, block |-> a.block, allow |-> a.allow] :
        pad \in AnswerPads, a \in AnswerCases, e \in AnswerEnds }
        \cup { [outcome |-> AI_ERROR, block |-> FALSE, allow |-> FALSE] }

VerdictInit ==
    /\ arg \in VerdictCases /\ ret = NotCalled
    /\ clients = 0
    /\ rules = Rule(NullList, NullList, NULL, NullMap)
    /\ page = [url |-> NULL, title |-> NULL, searchQuery |-> NULL]
    /\ authHeader = NULL
    /\ blocking_log = <<>>
    /\ req = [r \in Reqs |-> IdleReq]

CallGetAIDecision ==
    /\ ret = NotCalled
    /\ ret' = getAIDecision(arg.outcome)
    /\ UNCHANGED <<arg, clients, rules, blocking_log, page, authHeader, req>>

VerdictNext == CallGetAIDecision

VerdictSpec == VerdictInit /\ [][VerdictNext]_vars

\* ------------------------------------------------------------------------
\* `await logBlockingEvent(logData)` and the response that follows it, on
\* their own: request 1 stands before the call
\* ------------------------------------------------------------------------
LogReasons ==
    { "System Rule (Infra)", "Search Allowed", "YouTube Navigation",
      "Matched Allow List", "Matched Block List", "AI Decision" }

LogUserIds == {NULL, "", UserId}

LogUrls == {NULL, "https://www.bbc.co.uk/news", "not a url"}

LogTitles == {NULL, PageTitle}

\* the argument of the call, and the response the handler sends after it
LogCases ==
    { [logData |-> LogArg(u, url, d, reason, t), status |-> 200, decision |-> d] :
        u \in LogUserIds, url \in LogUrls, d \in {"ALLOW", "BLOCK"},
        reason \in LogReasons, t \in LogTitles }
        \cup { [logData |-> LogArg(u, url, "BLOCK", "Server Error", t),
                 status |-> 500, decision |-> NULL] :
                 u \in LogUserIds, url \in LogUrls, t \in LogTitles }

LogInit ==
    /\ arg \in LogCases /\ ret = NotCalled
    /\ clients = 0
    /\ rules = Rule(NullList, NullList, NULL, NullMap)
    /\ page = [url |-> NULL, title |-> NULL, searchQuery |-> NULL]
    /\ authHeader = NULL
    /\ blocking_log = <<>>
    /\ req = [r \in Reqs |-> IdleReq]

CallLogBlockingEvent ==
    /\ req[1].pc = "idle"
    /\ req' = [req EXCEPT ![1] = LogThenRespond(@, arg.logData, arg.status, arg.decision)]
    /\ UNCHANGED <<arg, ret, clients, rules, blocking_log, page, authHeader>>

LogNext == CallLogBlockingEvent \/ InsertOk(1) \/ InsertFails(1)

LogSpec == LogInit /\ [][LogNext]_vars

\* ------------------------------------------------------------------------
\* getUserRuleData called on its own
\* ------------------------------------------------------------------------
\* the whole of getUserRuleData: answer is what the select gives (error,
\* found: data is a row); the result is null (isNull) or the coerced row
UserRuleData(apiKey, answer) ==
    IF ~Truthy(apiKey)
    THEN [called |-> TRUE, isNull |-> TRUE, data |-> NULL, storeReads |-> 0]
    ELSE IF answer.error \/ ~answer.found
    THEN [called |-> TRUE, isNull |-> TRUE, data |-> NULL, storeReads |-> 1]
    ELSE [called |-> TRUE, isNull |-> FALSE, data |-> getUserRuleData(answer.data),
          storeReads |-> 1]

StoredRows ==
    { Rule(al, bl, prompt, cats) :
        al \in AllowLists, bl \in BlockLists,
        prompt \in {NULL, "Block news"}, cats \in {NullMap, {"news"}} }

\* what the select can give: a row, no row, an error, an error with a row
StoreAnswers ==
    { [error |-> e, found |-> TRUE, data |-> row] : e \in BOOLEAN, row \in StoredRows }
        \cup { [error |-> e, found |-> FALSE, data |-> NULL] : e \in BOOLEAN }

\* a row is found for its own key only
RuleDataCases ==
    { [apiKey |-> k, answer |-> a] : k \in {NULL, "", RegisteredKey}, a \in StoreAnswers }
        \cup { [apiKey |-> "k2", answer |-> a] : a \in { b \in StoreAnswers : ~b.found } }

NoResult == [called |-> FALSE]

RuleDataInit ==
    /\ arg \in RuleDataCases /\ ret = NoResult
    /\ clients = 0
    /\ rules = Rule(NullList, NullList, NULL, NullMap)
    /\ page = [url |-> NULL, title |-> NULL, searchQuery |-> NULL]
    /\ authHeader = NULL
    /\ blocking_log = <<>>
    /\ req = [r \in Reqs |-> IdleReq]

CallGetUserRuleData ==
    /\ ~ret.called
    /\ ret' = UserRuleData(arg.apiKey, arg.answer)
    /\ UNCHANGED <<arg, clients, rules, blocking_log, page, authHeader, req>>

RuleDataNext == CallGetUserRuleData

RuleDataSpec == RuleDataInit /\ [][RuleDataNext]_vars

TypeOK == \A r \in Reqs : req[r].pc \in {"idle", "rules", "ai", "log", "done"}

\* ------------------------------------------------------------------------
\* Vocabulary of the properties
\* ------------------------------------------------------------------------
Done(r) == req[r].pc = "done"

\* getUserRuleData returned a rule record to request r
Resolved(r) == req[r].found

\* candidate is ruleDomain or a subdomain of it
DomainUnder(candidate, ruleDomain) ==
    candidate = ruleDomain \/ EndsWith(candidate, "." \o ruleDomain)

\* the entries of a list column of the rule record
Entries(column) == { column[i] : i \in 1..Len(column) } \ {NULL}

\* the handler of request r has computed hostname, pathname and baseDomain
InChecks(r) == req[r].hostname # NULL

OnInfraList(r) ==
    req[r].baseDomain # NULL /\ \E d \in SYSTEM_ALLOWED_DOMAINS : DomainUnder(req[r].baseDomain, d)

OnAllowList(r) ==
    req[r].baseDomain # NULL
        /\ \E d \in Entries(rules.allow_list) : DomainUnder(req[r].baseDomain, d)

OnBlockList(r) ==
    req[r].baseDomain # NULL
        /\ \E d \in Entries(rules.block_list) : DomainUnder(req[r].baseDomain, d)

SystemCheckMatches(r) ==
    /\ InChecks(r)
    /\ \/ InfraMatch(req[r].baseDomain)
       \/ SearchMatch(req[r].hostname, req[r].pathname)
       \/ YouTubeMatch(req[r].hostname, req[r].pathname)

\* the rows request r has handed to the audit store
AuditWrites(r) == req[r].inserts

\* ------------------------------------------------------------------------
\* C1  The checks run in the order infra, search, youtube, allow-list,
\* block-list, AI Judge: the checks a request has evaluated are an initial
\* part of that order, every one before the last did not match, the last one
\* matched and alone gives the verdict and the audit reason, and the
\* completion backend is called only when the five others did not match.
\* ------------------------------------------------------------------------
CheckOrder == <<"infra", "search", "youtube", "allow", "block", "ai">>

CheckHolds(name, r) ==
    CASE name = "infra"   -> InfraMatch(req[r].baseDomain)
      [] name = "search"  -> SearchMatch(req[r].hostname, req[r].pathname)
      [] name = "youtube" -> YouTubeMatch(req[r].hostname, req[r].pathname)
      [] name = "allow"   -> OnAllowList(r)
      [] name = "block"   -> OnBlockList(r)
      [] name = "ai"      -> TRUE

CheckReason(name) ==
    CASE name = "infra"   -> "System Rule (Infra)"
      [] name = "search"  -> "Search Allowed"
      [] name = "youtube" -> "YouTube Navigation"
      [] name = "allow"   -> "Matched Allow List"
      [] name = "block"   -> "Matched Block List"
      [] name = "ai"      -> "AI Decision"

CheckVerdict(name) == IF name = "block" THEN "BLOCK" ELSE "ALLOW"

C1_FixedOrder ==
    \A r \in Reqs :
        LET e == req[r].evaluated
            n == Len(e)
        IN  /\ n <= Len(CheckOrder) /\ e = SubSeq(CheckOrder, 1, n)
            /\ InChecks(r) <=> n > 0
            /\ \A i \in 1..(n - 1) : ~CheckHolds(e[i], r)
            /\ n > 0 => CheckHolds(e[n], r)
            /\ req[r].aiCalls = (IF n > 0 /\ e[n] = "ai" THEN 1 ELSE 0)
            /\ n > 0 /\ e[n] # "ai" =>
                  /\ req[r].logCalls = 1
                  /\ req[r].log.reason = CheckReason(e[n])
                  /\ req[r].log.decision = CheckVerdict(e[n])
                  /\ Done(r) => req[r].status = 200 /\ req[r].decision = CheckVerdict(e[n])
            /\ n > 0 /\ e[n] = "ai" /\ Done(r) =>
                  /\ req[r].logCalls = 1
                  /\ req[r].log.reason = "AI Decision"
                  /\ req[r].status = 200 /\ req[r].decision = req[r].log.decision

\* a request on both user lists is answered by the allow-list check, the
\* block-list check and the AI Judge not being evaluated
C1_Witness ==
    \E r \in Reqs :
        /\ Done(r) /\ OnAllowList(r) /\ OnBlockList(r)
        /\ req[r].evaluated = <<"infra", "search", "youtube", "allow">>
        /\ req[r].decision = "ALLOW"

\* ------------------------------------------------------------------------
\* C2 (as stated)  A request whose host is an allow-list domain or a
\* subdomain of one is answered ALLOW with audit reason allow-list and no
\* call of the completion backend.
\* ------------------------------------------------------------------------
HostOnAllowList(r) ==
    InChecks(r) /\ \E d \in Entries(rules.allow_list) : DomainUnder(req[r].hostname, d)

C2_AllowListAlwaysReason ==
    \A r \in Reqs :
        HostOnAllowList(r) =>
            /\ req[r].aiCalls = 0
            /\ req[r].pc \in {"log", "done"} /\ req[r].log.reason = "Matched Allow List"
            /\ Done(r) => req[r].status = 200 /\ req[r].decision = "ALLOW"

\* C2 (amended)  Such a request is answered ALLOW with no call of the
\* completion backend; the audit reason is allow-list, with one audit insert,
\* unless one of the three system checks matches: then the reason is that
\* system rule and nothing is inserted.
C2_AllowListUnlessSystemRule ==
    \A r \in Reqs :
        HostOnAllowList(r) =>
            /\ req[r].aiCalls = 0
            /\ req[r].pc \in {"log", "done"}
            /\ IF SystemCheckMatches(r)
               THEN req[r].log.reason \in SuppressedReasons /\ AuditWrites(r) = <<>>
               ELSE /\ req[r].log.reason = "Matched Allow List"
                    /\ Len(AuditWrites(r)) = 1
                    /\ AuditWrites(r)[1].reason = "Matched Allow List"
                    /\ AuditWrites(r)[1].decision = "ALLOW"
            /\ Done(r) => req[r].status = 200 /\ req[r].decision = "ALLOW"

C2_Witness ==
    \E r \in Reqs :
        /\ Done(r) /\ HostOnAllowList(r) /\ ~SystemCheckMatches(r)
        /\ req[r].hostname = "sub.example.com"
        /\ req[r].decision = "ALLOW" /\ req[r].log.reason = "Matched Allow List"
        /\ req[r].aiCalls = 0

\* ------------------------------------------------------------------------
\* C3  https://accounts.google.com/signin is answered ALLOW for every rule
\* record, with no call of the completion backend and no audit write.
\* ------------------------------------------------------------------------
C3_SignInAlwaysAllowed ==
    \A r \in Reqs :
        page.url = "https://accounts.google.com/signin" /\ Resolved(r) =>
            /\ req[r].aiCalls = 0
            /\ AuditWrites(r) = <<>>
            /\ Done(r) => req[r].status = 200 /\ req[r].decision = "ALLOW"

\* ------------------------------------------------------------------------
\* C4  A request whose normalized domain is on the infrastructure list and
\* matches a block-list entry is answered ALLOW, and no audit entry is
\* written.
\* ------------------------------------------------------------------------
C4_InfraBeatsBlockList ==
    \A r \in Reqs :
        OnInfraList(r) /\ OnBlockList(r) =>
            /\ Done(r) /\ req[r].status = 200 /\ req[r].decision = "ALLOW"
            /\ AuditWrites(r) = <<>> /\ blocking_log = <<>>
            /\ req[r].aiCalls = 0

C4_Witness ==
    \E r \in Reqs :
        /\ OnInfraList(r) /\ OnBlockList(r)
        /\ req[r].baseDomain = "supabase.co"
        /\ Done(r) /\ req[r].decision = "ALLOW"

UserReasons == {"Matched Allow List", "Matched Block List", "AI Decision"}

SearchMarkers == {"google.", "bing.", "duckduckgo."}

SearchPage(r) ==
    /\ InChecks(r) /\ ~InfraMatch(req[r].baseDomain)
    /\ \E m \in SearchMarkers : Includes(req[r].hostname, m)
    /\ req[r].pathname = "/" \/ StartsWith(req[r].pathname, "/search")

EngineOf(hostname) ==
    CASE hostname = "www.google.com" -> "Google"
      [] hostname = "www.bing.com"   -> "Bing"
      [] hostname = "duckduckgo.com" -> "Search Engine"

ExpectedSearchTitle(r) ==
    IF page.searchQuery = "cats"
    THEN EngineOf(req[r].hostname) \o " Search: \"cats\""
    ELSE EngineOf(req[r].hostname) \o " Home"

C7_SystemRulesNotOverridable ==
    \A r \in Reqs :
        SystemCheckMatches(r) =>
            /\ Done(r) /\ req[r].status = 200 /\ req[r].decision = "ALLOW"
            /\ req[r].aiCalls = 0

\* youtube.com on the block list, a page of youtube.com that is not a video
C7_Witness ==
    \E r \in Reqs :
        /\ req[r].hostname = "www.youtube.com" /\ req[r].pathname = "/feed"
        /\ OnBlockList(r)
        /\ Done(r) /\ req[r].decision = "ALLOW" /\ req[r].aiCalls = 0

\* ------------------------------------------------------------------------
\* C8  A request without url, or whose Authorization header yields no key,
\* is answered 400, with no access to the rule store, no call of the
\* completion backend and no audit write.
\* ------------------------------------------------------------------------
NoUrl == page.url \in {NULL, ""}

NoKeyHeaders == {NULL, "Bearer", "Bearer "}

C8_MissingUrlOrKey400 ==
    \A r \in Reqs :
        (NoUrl \/ authHeader \in NoKeyHeaders) /\ req[r].pc # "idle" =>
            /\ Done(r) /\ req[r].status = 400 /\ req[r].decision = NULL
            /\ req[r].responses = 1
            /\ req[r].storeReads = 0 /\ req[r].aiCalls = 0
            /\ req[r].logCalls = 0 /\ AuditWrites(r) = <<>> /\ blocking_log = <<>>

C8_Witness ==
    \E r \in Reqs :
        /\ authHeader = "Bearer" /\ ~NoUrl
        /\ Done(r) /\ req[r].status = 400 /\ req[r].storeReads = 0

\* ------------------------------------------------------------------------
\* C9  A request with a key that matches no rule record is answered 401 for
\* every url, with no audit entry, no call of the completion backend and no
\* decision field.
\* ------------------------------------------------------------------------
UnknownKey == authHeader = "Bearer k2" /\ rules.api_key # "k2"

C9_UnknownKey401 ==
    \A r \in Reqs :
        UnknownKey /\ ~NoUrl /\ req[r].pc \notin {"idle", "rules"} =>
            /\ Done(r) /\ req[r].status = 401 /\ req[r].decision = NULL
            /\ req[r].responses = 1
            /\ req[r].aiCalls = 0
            /\ req[r].logCalls = 0 /\ AuditWrites(r) = <<>> /\ blocking_log = <<>>

\* an infrastructure url with an unknown key
C9_Witness ==
    \E r \in Reqs :
        /\ UnknownKey /\ page.url = "https://app.supabase.co/rest"
        /\ Done(r) /\ req[r].status = 401

\* ------------------------------------------------------------------------
\* C10  When the call of the completion backend fails, the response is 200
\* with decision BLOCK, never a 500, and exactly one audit row, with reason
\* AI Decision, decision BLOCK and the resolved user id, is handed to the
\* audit store.
\* ------------------------------------------------------------------------
C10_AIFailureBlocks ==
    \A r \in Reqs :
        req[r].aiResult = AI_ERROR =>
            /\ ~SystemCheckMatches(r) /\ ~OnAllowList(r) /\ ~OnBlockList(r)
            /\ req[r].pc \in {"log", "done"}
            /\ Len(AuditWrites(r)) = 1
            /\ AuditWrites(r)[1].reason = "AI Decision"
            /\ AuditWrites(r)[1].decision = "BLOCK"
            /\ AuditWrites(r)[1].user_id = rules.user_id
            /\ Done(r) => req[r].status = 200 /\ req[r].decision = "BLOCK"
                            /\ req[r].responses = 1

C10_Witness ==
    \E r \in Reqs :
        /\ req[r].aiResult = AI_ERROR
        /\ Done(r) /\ req[r].status = 200 /\ req[r].decision = "BLOCK"
        /\ \E i \in 1..Len(blocking_log) :
              /\ blocking_log[i] = AuditWrites(r)[1]
              /\ blocking_log[i].reason = "AI Decision"

\* ------------------------------------------------------------------------
\* C11  Every /check-url request gets exactly one response: none while the
\* handler runs, one once it has ended, with status 200, 400, 401 or 500.  A
\* response with status 200 carries decision ALLOW or BLOCK and no other
\* value, whatever text the completion backend returned; every other
\* response carries no decision.
\* ------------------------------------------------------------------------
C11_OneResponseTwoValues ==
    \A r \in Reqs :
        /\ req[r].responses = (IF Done(r) THEN 1 ELSE 0)
        /\ req[r].status = 0 <=> ~Done(r)
        /\ Done(r) => req[r].status \in {200, 400, 401, 500}
        /\ req[r].status = 200 => req[r].decision \in {"ALLOW", "BLOCK"}
        /\ req[r].status # 200 => req[r].decision = NULL

\* the backend answered with a text that is neither verdict
C11_Witness ==
    \E r \in Reqs :
        /\ req[r].aiResult \in {"maybe", ""}
        /\ Done(r) /\ req[r].responses = 1
        /\ req[r].status = 200 /\ req[r].decision = "BLOCK"

\* ------------------------------------------------------------------------
\* C12  When the handler throws after the rule record is resolved (in the
\* model: new URL(url) rejects the url), its catch block hands one audit
\* entry with reason Server Error, decision BLOCK and the resolved user id to
\* the audit store, the completion backend is not called, and the response
\* has status 500 and no decision field.
\* ------------------------------------------------------------------------
Throws(r) == Resolved(r) /\ ~ParseURL(page.url).ok

C12_CatchLogsBlockAnswers500 ==
    \A r \in Reqs :
        Throws(r) =>
            /\ req[r].pc \in {"log", "done"}
            /\ req[r].evaluated = <<>> /\ req[r].aiCalls = 0
            /\ req[r].logCalls = 1 /\ Len(AuditWrites(r)) = 1
            /\ AuditWrites(r)[1].reason = "Server Error"
            /\ AuditWrites(r)[1].decision = "BLOCK"
            /\ AuditWrites(r)[1].user_id = rules.user_id
            /\ AuditWrites(r)[1].url = page.url
            /\ Done(r) => req[r].status = 500 /\ req[r].decision = NULL /\ req[r].responses = 1

C12_Witness ==
    \E r \in Reqs :
        /\ Throws(r) /\ Done(r) /\ req[r].status = 500
        /\ \E i \in 1..Len(blocking_log) :
              blocking_log[i].reason = "Server Error" /\ blocking_log[i].decision = "BLOCK"

\* ------------------------------------------------------------------------
\* C13  A url that cannot be parsed (getDomainFromUrl gives null for it)
\* raises no error in the handler: a request with a resolving key is not
\* answered 500 and causes no Server Error audit entry because of it.
\* ------------------------------------------------------------------------
Unparseable(url) == Truthy(url) /\ getDomainFromUrl(url) = NULL

C13_UnparseableUrlNo500 ==
    \A r \in Reqs :
        Resolved(r) /\ Unparseable(page.url) =>
            /\ req[r].status # 500
            /\ req[r].log.reason # "Server Error"

\* ------------------------------------------------------------------------
\* C14  A url without a scheme that names a host is evaluated like the same
\* url with 'http://' in front: same status, same verdict, same audit
\* reason, for every rule record.
\* ------------------------------------------------------------------------
Schemeless(url) ==
    /\ Truthy(url) /\ getDomainFromUrl(url) # NULL
    /\ ~StartsWith(Trim(url), "http://") /\ ~StartsWith(Trim(url), "https://")

\* what the checks give for the page with 'http://' in front of its url
Prefixed(r) ==
    Checks([page EXCEPT !.url = "http://" \o @], req[r].userId,
           req[r].allow_list, req[r].block_list)

C14_SchemelessLikePrefixed ==
    \A r \in Reqs :
        Resolved(r) /\ Schemeless(page.url) /\ Done(r) =>
            /\ req[r].status = 200
            /\ Prefixed(r).kind = "verdict" =>
                  /\ req[r].decision = Prefixed(r).decision
                  /\ req[r].log.reason = Prefixed(r).log.reason
            /\ Prefixed(r).kind = "ai" =>
                  req[r].aiCalls = 1 /\ req[r].log.reason = "AI Decision"

\* ------------------------------------------------------------------------
\* C15  Every domain comparison of the handler follows the membership rule
\* candidate = ruleDomain or candidate ends with '.' + ruleDomain: the
\* infrastructure check, the allow-list check and the block-list check
\* answer only for a domain that is a list entry or a subdomain of one.
\* ------------------------------------------------------------------------
C15_LabelBoundaryEverywhere ==
    \A r \in Reqs :
        /\ req[r].log.reason = "System Rule (Infra)" => OnInfraList(r)
        /\ req[r].log.reason = "Matched Allow List" => OnAllowList(r)
        /\ req[r].log.reason = "Matched Block List" => OnBlockList(r)

\* ------------------------------------------------------------------------
\* C16  A request whose normalized domain is a block-list entry or a
\* subdomain of one, is under no allow-list entry and matches none of the
\* three system checks is answered BLOCK with audit reason block-list, one
\* audit insert and no call of the completion backend; so is
\* https://www.bbc.co.uk/news with bbc.co.uk on the block list and not on
\* the allow list.
\* ------------------------------------------------------------------------
BlockedOnly(r) ==
    InChecks(r) /\ OnBlockList(r) /\ ~OnAllowList(r) /\ ~SystemCheckMatches(r)

BlockedVerdict(r) ==
    /\ req[r].pc \in {"log", "done"}
    /\ req[r].aiCalls = 0
    /\ req[r].log.reason = "Matched Block List" /\ req[r].log.decision = "BLOCK"
    /\ Len(AuditWrites(r)) = 1
    /\ AuditWrites(r)[1].reason = "Matched Block List"
    /\ AuditWrites(r)[1].decision = "BLOCK"
    /\ Done(r) => req[r].status = 200 /\ req[r].decision = "BLOCK"

BBCNews(r) ==
    /\ page.url = "https://www.bbc.co.uk/news" /\ Resolved(r)
    /\ "bbc.co.uk" \in Entries(rules.block_list)
    /\ "bbc.co.uk" \notin Entries(rules.allow_list)

C16_BlockListBlocks ==
    \A r \in Reqs :
        /\ BlockedOnly(r) => BlockedVerdict(r)
        /\ BBCNews(r) => req[r].baseDomain = "bbc.co.uk" /\ BlockedVerdict(r)

C16_Witness ==
    \E r \in Reqs :
        /\ BBCNews(r) /\ BlockedOnly(r) /\ Done(r)
        /\ req[r].status = 200 /\ req[r].decision = "BLOCK"
        /\ \E i \in 1..Len(blocking_log) :
              blocking_log[i].reason = "Matched Block List" /\ blocking_log[i].domain = "bbc.co.uk"

\* ------------------------------------------------------------------------
\* C17  Identical calls (same body, same key) against the same rule record,
\* to which the rule store and the completion backend answer the same, get
\* the same status and the same decision, whether they overlap or follow one
\* another and whatever the audit store holds by then.
\* ------------------------------------------------------------------------
SameAnswers(p, q) ==
    req[p].found = req[q].found /\ req[p].aiResult = req[q].aiResult

C17_IdenticalCallsSameResult ==
    \A p, q \in Reqs :
        Done(p) /\ Done(q) /\ SameAnswers(p, q) =>
            req[p].status = req[q].status /\ req[p].decision = req[q].decision

\* two calls answered by the AI Judge on the same text, both audited
C17_Witness ==
    /\ Done(1) /\ Done(2) /\ SameAnswers(1, 2)
    /\ req[1].aiResult = " allow\n" /\ req[1].decision = "ALLOW" /\ req[2].decision = "ALLOW"
    /\ Len(blocking_log) = 2

\* ------------------------------------------------------------------------
\* C18  Every /check-url request that the handler has taken up is eventually
\* answered, also when the rule store, the completion backend or the audit
\* store never answers.
\* ------------------------------------------------------------------------
C18_EveryRequestAnswered == \A r \in Reqs : (req[r].pc # "idle") ~> Done(r)

\* ------------------------------------------------------------------------
\* C19  Concurrent requests for the same url and key share nothing in the
\* process: under every interleaving each request reads the rule store at
\* most once, runs the checks itself, gets the response it would get alone from
\* what the store and the backend answered to it, and on the AI branch
\* makes its own backend call and hands its own entry to the audit store;
\* the audit store holds only entries the requests handed to it.
\* ------------------------------------------------------------------------
\* the verdict of the AI Judge on what the backend answered to request r
VerdictAlone(r) == IF req[r].aiResult = " allow\n" THEN "ALLOW" ELSE "BLOCK"

\* the response to request r when it runs alone
ResponseAlone(r) ==
    LET c == Checks(page, rules.user_id, req[r].allow_list, req[r].block_list)
    IN  IF NoUrl \/ authHeader \in NoKeyHeaders THEN [status |-> 400, decision |-> NULL]
        ELSE IF ~Resolved(r) THEN [status |-> 401, decision |-> NULL]
        ELSE IF c.kind = "throw" THEN [status |-> 500, decision |-> NULL]
        ELSE IF c.kind = "verdict" THEN [status |-> 200, decision |-> c.decision]
        ELSE [status |-> 200, decision |-> VerdictAlone(r)]

OnAIBranch(r) == req[r].aiCalls > 0

C19_ConcurrentRequestsIndependent ==
    /\ \A r \in Reqs :
          /\ req[r].storeReads <= 1
          /\ req[r].aiCalls <= 1 /\ Len(AuditWrites(r)) <= 1
          /\ Done(r) =>
                req[r].status = ResponseAlone(r).status
                    /\ req[r].decision = ResponseAlone(r).decision
          /\ OnAIBranch(r) /\ Done(r) =>
                /\ Len(AuditWrites(r)) = 1
                /\ AuditWrites(r)[1].reason = "AI Decision"
                /\ AuditWrites(r)[1].decision = req[r].decision
    /\ \A i \in 1..Len(blocking_log) :
          \E r \in Reqs : req[r].pc = "done" /\ AuditWrites(r) = <<blocking_log[i]>>
    /\ Len(blocking_log) <= Cardinality({r \in Reqs : AuditWrites(r) # <<>>})

\* two overlapping requests on the AI branch, answered differently by the
\* backend: two backend calls, two verdicts, two audit entries
C19_Witness ==
    /\ clients >= 2 /\ Done(1) /\ Done(2)
    /\ req[1].aiCalls = 1 /\ req[2].aiCalls = 1
    /\ req[1].decision = "ALLOW" /\ req[2].decision = "BLOCK"
    /\ blocking_log = <<AuditWrites(2)[1], AuditWrites(1)[1]>>

\* ------------------------------------------------------------------------
\* C20  getDomainFromUrl returns, in lower case: the label of a hostname of
\* one label; the last three labels when the last two labels both have at
\* most 3 characters (both labels when there are only two); the last two
\* labels otherwise; and null for an empty or unparseable string.  So
\* 'https://foo.bar.co.uk/x' gives 'bar.co.uk', 'https://example.com' gives
\* 'example.com' and 'not a url' gives null.
\* ------------------------------------------------------------------------
ExpectedDomain(labels) ==
    LET n == Len(labels)
    IN  IF n = 0 THEN NULL
        ELSE IF n = 1 THEN labels[1]
        ELSE IF n = 2 THEN labels[1] \o "." \o labels[2]
        ELSE IF Len(labels[n]) <= 3 /\ Len(labels[n - 1]) <= 3
             THEN labels[n - 2] \o "." \o labels[n - 1] \o "." \o labels[n]
             ELSE labels[n - 1] \o "." \o labels[n]

C20_BaseDomainRule ==
    ret # NotCalled =>
        /\ ret = ExpectedDomain(arg.labels)
        /\ arg.url = "https://foo.bar.co.uk/x" => ret = "bar.co.uk"
        /\ arg.url = "https://example.com" => ret = "example.com"
        /\ arg.url = "not a url" => ret = NULL

C20_Witness == ret = "bar.co.uk" /\ arg.url = "https://foo.bar.co.uk/x"

\* ------------------------------------------------------------------------
\* C21  getAIDecision maps the backend's text, trimmed and in upper case, to
\* BLOCK when it holds BLOCK (also when it holds ALLOW as well), else to
\* ALLOW when it holds ALLOW, else to BLOCK; it always returns one of the two
\* verdicts, an exception of the call included, and a text that holds
\* neither word never gives ALLOW.
\* ------------------------------------------------------------------------
C21_VerdictFromText ==
    ret # NotCalled =>
        /\ ret \in {"ALLOW", "BLOCK"}
        /\ ret = (IF arg.block THEN "BLOCK" ELSE IF arg.allow THEN "ALLOW" ELSE "BLOCK")
        /\ arg.outcome = AI_ERROR => ret = "BLOCK"

\* a text that holds both words
C21_Witness == ret = "BLOCK" /\ arg.outcome = " allow, do not block."

\* ------------------------------------------------------------------------
\* C22  logBlockingEvent never changes the response of the handler: the
\* response sent after the call is the one the handler had prepared, with
\* the same status and decision whether the insert succeeded or failed
\* (error result or exception).  It makes no insert when userId is absent or
\* the reason is the infra tag, and at most one insert otherwise, of a row
\* with the fields of its argument.
\* ------------------------------------------------------------------------
C22_LogNeverChangesResponse ==
    req[1].pc # "idle" /\ clients = 0 =>
        /\ req[1].logCalls = 1 /\ Len(AuditWrites(1)) <= 1
        /\ ~Truthy(arg.logData.userId) \/ arg.logData.reason = "System Rule (Infra)" =>
              AuditWrites(1) = <<>> /\ blocking_log = <<>> /\ Done(1)
        /\ AuditWrites(1) # <<>> =>
              /\ AuditWrites(1)[1].user_id = arg.logData.userId
              /\ AuditWrites(1)[1].decision = arg.logData.decision
              /\ AuditWrites(1)[1].reason = arg.logData.reason
        /\ blocking_log \in {<<>>, AuditWrites(1)}
        /\ Done(1) =>
              /\ req[1].responses = 1
              /\ req[1].status = arg.status /\ req[1].decision = arg.decision

\* the insert failed and the prepared response was sent
C22_Witness ==
    /\ clients = 0 /\ Done(1) /\ Len(AuditWrites(1)) = 1 /\ blocking_log = <<>>
    /\ req[1].status = 200 /\ req[1].decision = "BLOCK"
    /\ AuditWrites(1)[1].domain = "Unknown Domain"

\* ------------------------------------------------------------------------
\* C23  getUserRuleData returns null exactly when the key is empty (the
\* store is then not accessed) or the lookup gives an error or no row.
\* Otherwise it returns the stored row with allow_list and block_list lists
\* and blocked_categories a map, none of them null: a stored null becomes
\* the empty collection, everything else is returned as stored.  A failed
\* lookup gives null, never a default record.
\* ------------------------------------------------------------------------
\* the column as a collection: the stored one, or the empty one for null
ListOrEmpty(column) == IF column = NullList THEN <<>> ELSE column

MapOrEmpty(column) == IF column = NullMap THEN {} ELSE column

C23_RuleDataOrNull ==
    ret.called =>
        /\ ret.isNull <=>
              (arg.apiKey \in {NULL, ""} \/ arg.answer.error \/ ~arg.answer.found)
        /\ ret.storeReads = (IF arg.apiKey \in {NULL, ""} THEN 0 ELSE 1)
        /\ ~ret.isNull =>
              /\ ret.data.allow_list = ListOrEmpty(arg.answer.data.allow_list)
              /\ ret.data.block_list = ListOrEmpty(arg.answer.data.block_list)
              /\ ret.data.blocked_categories = MapOrEmpty(arg.answer.data.blocked_categories)
              /\ \A i \in 1..Len(ret.data.allow_list) : ret.data.allow_list[i] # NULL
              /\ \A i \in 1..Len(ret.data.block_list) : ret.data.block_list[i] # NULL
              /\ NULL \notin ret.data.blocked_categories
              /\ ret.data.user_id = arg.answer.data.user_id
              /\ ret.data.prompt = arg.answer.data.prompt
              /\ ret.data.api_key = arg.apiKey

\* a row whose three collections are stored as null
C23_Witness ==
    /\ ret.called /\ ~ret.isNull
    /\ arg.answer.data.allow_list = NullList /\ arg.answer.data.block_list = NullList
    /\ arg.answer.data.blocked_categories = NullMap
    /\ ret.data.allow_list = <<>> /\ ret.data.block_list = <<>>
    /\ ret.data.blocked_categories = {}

\* ------------------------------------------------------------------------
\* C24  The rule record is never written by /check-url: no step changes any
\* of its columns but last_seen, the step that changes last_seen is the
\* heartbeat and touches no request and no audit entry, and the response of
\* a request is the one the checks give on the stored record, however many
\* heartbeats were written before or during the request.
\* ------------------------------------------------------------------------
\* the columns of the rule record other than last_seen
PolicyOf(row) == [row EXCEPT !.last_seen = 0]

\* the response the checks give on the stored record
ResponseOnRecord(r) ==
    LET c == Checks(page, rules.user_id, ListOrEmpty(rules.allow_list),
                    ListOrEmpty(rules.block_list))
    IN  IF c.kind = "throw" THEN [status |-> 500, decision |-> NULL]
        ELSE IF c.kind = "verdict" THEN [status |-> 200, decision |-> c.decision]
        ELSE [status |-> 200, decision |-> VerdictAlone(r)]

C24_RuleStoreReadOnly ==
    /\ [][ /\ PolicyOf(rules') = PolicyOf(rules)
           /\ rules' # rules =>
                 /\ rules'.last_seen = rules.last_seen + 1
                 /\ req' = req /\ blocking_log' = blocking_log
           /\ req' # req => rules' = rules ]_vars
    /\ [](\A r \in Reqs :
             Resolved(r) /\ Done(r) =>
                 /\ req[r].status = ResponseOnRecord(r).status
                 /\ req[r].decision = ResponseOnRecord(r).decision
                 /\ req[r].block_list = ListOrEmpty(rules.block_list)
                 /\ req[r].allow_list = ListOrEmpty(rules.allow_list))

\* a heartbeat has been written and a request was decided on the block list
C24_Witness ==
    \E r \in Reqs :
        /\ rules.last_seen > 0
        /\ Done(r) /\ req[r].log.reason = "Matched Block List" /\ req[r].decision = "BLOCK"

\* ------------------------------------------------------------------------
\* C25  A request whose normalized domain is under an entry of the allow
\* list and under an entry of the block list, and that matches no system
\* check, is answered ALLOW with audit reason Matched Allow List; the
\* block-list check is not evaluated and the completion backend not called.
\* ------------------------------------------------------------------------
OnBothLists(r) ==
    InChecks(r) /\ OnAllowList(r) /\ OnBlockList(r) /\ ~SystemCheckMatches(r)

C25_AllowBeatsBlock ==
    \A r \in Reqs :
        OnBothLists(r) =>
            /\ req[r].evaluated = <<"infra", "search", "youtube", "allow">>
            /\ req[r].aiCalls = 0
            /\ req[r].pc \in {"log", "done"}
            /\ Len(AuditWrites(r)) = 1
            /\ AuditWrites(r)[1].reason = "Matched Allow List"
            /\ AuditWrites(r)[1].decision = "ALLOW"
            /\ Done(r) => req[r].status = 200 /\ req[r].decision = "ALLOW"

\* example.com on both lists, a page of sub.example.com
C25_Witness ==
    \E r \in Reqs :
        /\ OnBothLists(r) /\ req[r].baseDomain = "example.com"
        /\ "example.com" \in Entries(rules.allow_list) \cap Entries(rules.block_list)
        /\ Done(r) /\ req[r].decision = "ALLOW"
        /\ \E i \in 1..Len(blocking_log) : blocking_log[i].reason = "Matched Allow List"

\* ------------------------------------------------------------------------
\* C26  The audit entry of a request answered 200 holds the decision of the
\* response; the audit entry of a request answered 500 holds BLOCK; and every
\* audit entry, handed to the store or stored, holds ALLOW or BLOCK.
\* ------------------------------------------------------------------------
C26_AuditDecisionIsResponse ==
    /\ \A r \in Reqs :
          /\ \A i \in 1..Len(AuditWrites(r)) :
                AuditWrites(r)[i].decision \in {"ALLOW", "BLOCK"}
          /\ Done(r) /\ req[r].status = 200 =>
                \A i \in 1..Len(AuditWrites(r)) : AuditWrites(r)[i].decision = req[r].decision
          /\ Done(r) /\ req[r].status = 500 =>
                \A i \in 1..Len(AuditWrites(r)) : AuditWrites(r)[i].decision = "BLOCK"
          /\ Done(r) /\ req[r].status \in {400, 401} => AuditWrites(r) = <<>>
    /\ \A i \in 1..Len(blocking_log) : blocking_log[i].decision \in {"ALLOW", "BLOCK"}

\* the AI Judge allowed the page; the stored entry and the 200 response both
\* hold ALLOW
C26_Witness ==
    \E r \in Reqs :
        /\ Done(r) /\ req[r].status = 200 /\ req[r].decision = "ALLOW"
        /\ req[r].aiCalls = 1 /\ Len(AuditWrites(r)) = 1
        /\ AuditWrites(r)[1].reason = "AI Decision"
        /\ \E i \in 1..Len(blocking_log) :
              blocking_log[i] = AuditWrites(r)[1] /\ blocking_log[i].decision = "ALLOW"

====
